---- MODULE Spec2Model ----
(***************************************************************************)
(* Ethiopian <-> Gregorian date converter.                                 *)
(*                                                                         *)
(* The model has two layers.                                               *)
(*  - The boundary layer (src/bindings/ts/src/native/binding.cpp, whose    *)
(*    first five handlers are identical to src/bindings/js/src/binding.cpp)*)
(*    is translated handler by handler: arity check, argument extraction,  *)
(*    era selection, validation, call of the core, returned value or       *)
(*    pending JavaScript exception.                                        *)
(*  - The core (ethiopic_calendar.c) is not part of the sources at hand;   *)
(*    only its callers and its tests are.  Its functions are written here  *)
(*    from the specification: the leap and validity rules as given, the    *)
(*    JDN formulas as the standard closed forms anchored at                *)
(*    1 Meskerem 1 (Amete Mihret) = Gregorian 8-8-27.                      *)
(*                                                                         *)
(* The state is one boundary call as the host sees it: the function that   *)
(* was called, the arguments, and the outcome (value or exception) with    *)
(* the core functions the handler invoked, in order.                       *)
(***************************************************************************)
EXTENDS Integers, Sequences, FiniteSets

VARIABLES pc, fn, info, out, build

vars == <<pc, fn, info, out, build>>

(***************************************************************************)
(* Bounds of the explored input space.                                     *)
(***************************************************************************)
MaxYear == 4
MaxMonth == 14
MaxDay == 32
MaxJdn == 30

(***************************************************************************)
(* JavaScript values crossing the boundary.                                *)
(***************************************************************************)
Num(n) == [t |-> "number", v |-> n]
Bool(b) == [t |-> "boolean", v |-> b]
Null == [t |-> "null", v |-> 0]
Undefined == [t |-> "undefined", v |-> 0]
IsNull(x) == x.t = "null"
IsUndefined(x) == x.t = "undefined"
IsNumber(x) == x.t = "number"

\* As<Napi::Number>().Int32Value(), Int64Value(), DoubleValue().  On a value
\* that is not a number the conversion raises TypeError "A number was
\* expected" (see NumberChecked) and, where the handler goes on, yields 0.
\* On a number it yields the number: every number of the model is an
\* integer within the 32-bit range, on which the int32 wrap and the
\* truncation of the fraction change nothing.
Int32Value(x) == IF IsNumber(x) THEN x.v ELSE 0
Int64Value(x) == IF IsNumber(x) THEN x.v ELSE 0
DoubleValue(x) == IF IsNumber(x) THEN x.v ELSE 0

(***************************************************************************)
(* Integer arithmetic.  quotient is the floor quotient of the standard     *)
(* calendar formulas; CRem is the remainder operator % of C, whose sign    *)
(* follows the dividend.                                                   *)
(***************************************************************************)
quotient(i, j) == i \div j
mod(i, j) == i - j * quotient(i, j)
CRem(a, b) == IF a >= 0 THEN a % b ELSE -((-a) % b)

(***************************************************************************)
(* CORE (written from the specification).                                  *)
(* Epoch offsets: process-wide constants, exported by the bindings.        *)
(***************************************************************************)
JD_EPOCH_OFFSET_AMETE_ALEM == -285019
JD_EPOCH_OFFSET_AMETE_MIHRET == 1723856
JD_EPOCH_OFFSET_GREGORIAN == 1721426

date_t(y, m, d) == [year |-> y, month |-> m, day |-> d]

\* True iff year % 4 == 0 && (year % 100 != 0 || year % 400 == 0).
is_gregorian_leap(year) ==
    CRem(year, 4) = 0 /\ (CRem(year, 100) # 0 \/ CRem(year, 400) = 0)

\* The standard 28/29/30/31 table, for month in 1..12.
gregorian_days_in_month(year, month) ==
    IF month = 2 THEN (IF is_gregorian_leap(year) THEN 29 ELSE 28)
    ELSE IF month \in {4, 6, 9, 11} THEN 30
    ELSE 31

is_valid_gregorian_date(year, month, day) ==
    IF month < 1 \/ month > 12 THEN FALSE
    ELSE IF day < 1 \/ day > gregorian_days_in_month(year, month) THEN FALSE
    ELSE TRUE

\* True iff year % 4 == 3.
ethiopic_is_leap(year) == CRem(year, 4) = 3

is_valid_ethiopic_date(year, month, day) ==
    IF month < 1 \/ month > 13 THEN FALSE
    ELSE IF day < 1 THEN FALSE
    ELSE IF month <= 12 THEN day <= 30
    ELSE day <= (IF ethiopic_is_leap(year) THEN 6 ELSE 5)

\* epoch_offset + f(year, month, day): 365 days a year, one more every
\* fourth year, twelve months of 30 days, 1-based month and day.
ethiopic_to_jdn(year, month, day, era) ==
    (era + 365) + 365 * (year - 1) + quotient(year, 4) + 30 * month + day - 31

jdn_to_ethiopic(jdn, era) ==
    LET r == mod(jdn - era, 1461)
        n == mod(r, 365) + 365 * quotient(r, 1460)
    IN  date_t(4 * quotient(jdn - era, 1461) + quotient(r, 365) - quotient(r, 1460),
               quotient(n, 30) + 1,
               mod(n, 30) + 1)

\* Standard proleptic Gregorian day count: days before the year, days
\* before the month (closed form, total over the integers), day.
gregorian_to_jdn(year, month, day) ==
    LET s == quotient(year, 4) - quotient(year - 1, 4)
             - quotient(year, 100) + quotient(year - 1, 100)
             + quotient(year, 400) - quotient(year - 1, 400)
        t == quotient(14 - month, 12)
        n == 31 * t * (month - 1)
             + (1 - t) * (59 + s + 30 * (month - 3) + quotient(3 * month - 7, 5))
             + day - 1
    IN  JD_EPOCH_OFFSET_GREGORIAN + 365 * (year - 1) + quotient(year - 1, 4)
        - quotient(year - 1, 100) + quotient(year - 1, 400) + n

\* Inverse of gregorian_to_jdn: 400-, 100-, 4- and 1-year cycles, then the
\* month whose first day is the last one not after the day of the year.
Min(a, b) == IF a <= b THEN a ELSE b

jdn_to_gregorian(jdn) ==
    LET d0 == jdn - JD_EPOCH_OFFSET_GREGORIAN
        r400 == mod(d0, 146097)
        n100 == Min(3, quotient(r400, 36524))
        r100 == r400 - 36524 * n100
        r4 == mod(r100, 1461)
        n1 == Min(3, quotient(r4, 365))
        year == 400 * quotient(d0, 146097) + 100 * n100
                + 4 * quotient(r100, 1461) + n1 + 1
        month == CHOOSE m \in 1..12 :
                    /\ gregorian_to_jdn(year, m, 1) <= jdn
                    /\ m < 12 => jdn < gregorian_to_jdn(year, m + 1, 1)
    IN  date_t(year, month, jdn - gregorian_to_jdn(year, month, 1) + 1)

\* Single threshold: the JDN of Amete Mihret year 1, month 1, day 1.
guess_era(jdn) ==
    IF jdn >= JD_EPOCH_OFFSET_AMETE_MIHRET + 365
    THEN JD_EPOCH_OFFSET_AMETE_MIHRET
    ELSE JD_EPOCH_OFFSET_AMETE_ALEM

ethiopic_to_gregorian(year, month, day, era) ==
    jdn_to_gregorian(ethiopic_to_jdn(year, month, day, era))

gregorian_to_ethiopic(year, month, day) ==
    LET jdn == gregorian_to_jdn(year, month, day)
    IN  jdn_to_ethiopic(jdn, guess_era(jdn))

(***************************************************************************)
(* BOUNDARY LAYER (binding.cpp).                                           *)
(* A handler's outcome: the returned JavaScript value, or a pending        *)
(* exception (the handler then returns env.Null()), and the core functions *)
(* it called, in call order.                                               *)
(***************************************************************************)
ArityMsg3 == "Expected 3 arguments: year, month, day"
ArityMsg1 == "Expected 1 argument: jdn"
InvalidEthiopicMsg == "Invalid Ethiopian date"
InvalidGregorianMsg == "Invalid Gregorian date"

Return(value, calls) ==
    [threw |-> FALSE, fatal |-> FALSE, msg |-> "", ret |-> value, calls |-> calls]
ThrowTypeError(message, calls) ==
    [threw |-> TRUE, fatal |-> FALSE, msg |-> message, ret |-> Null, calls |-> calls]

CreateDateObject(date) == [t |-> "object", v |-> date]

NumberExpectedMsg == "A number was expected"

FatalMsg == "FATAL ERROR: Error::ThrowAsJavaScriptException napi_throw"

\* The process aborts inside the handler: no value and no exception reaches
\* the host, and nothing runs afterwards.
Abort(calls) ==
    [threw |-> FALSE, fatal |-> TRUE, msg |-> FatalMsg, ret |-> Undefined,
     calls |-> calls]

\* The ways the addon can be built.  With C++ exceptions ("exc") a failed
\* conversion unwinds the handler at once: no core function has been
\* called.  Without them the failed conversion leaves the TypeError pending
\* and yields 0, and the handler runs on: the core is called with the 0.  If
\* the handler then returns a value, the value is dropped and the host sees
\* the pending TypeError.  If the handler then throws an error of its own,
\* napi_throw fails on the pending exception: node-addon-api treats the
\* failure as fatal and the process aborts ("noexc"), or, in a release that
\* re-raises the pending exception instead, the host sees the pending
\* TypeError ("noexc_rethrow").
Builds == {"exc", "noexc", "noexc_rethrow"}

\* `converted`: the values the handler passes through As<Napi::Number>();
\* `outcome`: what the handler does with the converted values.
NumberChecked(converted, outcome) ==
    IF \A i \in 1..Len(converted) : IsNumber(converted[i]) THEN outcome
    ELSE IF build = "exc" THEN ThrowTypeError(NumberExpectedMsg, <<>>)
    ELSE IF outcome.threw /\ build = "noexc" THEN Abort(outcome.calls)
    ELSE ThrowTypeError(NumberExpectedMsg, outcome.calls)

DateValues(args) == <<args[1], args[2], args[3]>>

\* Mutant: the explicit era argument is ignored, the era is always guessed.
EthiopicToGregorian_IgnoresEra(args) ==
    IF Len(args) < 3 THEN ThrowTypeError(ArityMsg3, <<>>)
    ELSE
      LET year == Int32Value(args[1])
          month == Int32Value(args[2])
          day == Int32Value(args[3])
          era == guess_era(ethiopic_to_jdn(year, month, day,
                                           JD_EPOCH_OFFSET_AMETE_MIHRET))
          pre == <<"ethiopic_to_jdn", "guess_era">>
      IN  NumberChecked(DateValues(args),
            IF ~is_valid_ethiopic_date(year, month, day)
            THEN ThrowTypeError(InvalidEthiopicMsg,
                                pre \o <<"is_valid_ethiopic_date">>)
            ELSE Return(CreateDateObject(
                            ethiopic_to_gregorian(year, month, day, era)),
                        pre \o <<"is_valid_ethiopic_date",
                                 "ethiopic_to_gregorian">>))

\* Mutant: an omitted era defaults to Amete Mihret instead of being guessed.
EthiopicToGregorian_DefaultsToMihret(args) ==
    IF Len(args) < 3 THEN ThrowTypeError(ArityMsg3, <<>>)
    ELSE
      LET year == Int32Value(args[1])
          month == Int32Value(args[2])
          day == Int32Value(args[3])
          explicit == Len(args) >= 4 /\ ~IsNull(args[4]) /\ ~IsUndefined(args[4])
          era == IF explicit THEN Int64Value(args[4])
                 ELSE JD_EPOCH_OFFSET_AMETE_MIHRET
      IN  NumberChecked(
            DateValues(args) \o (IF explicit THEN <<args[4]>> ELSE <<>>),
            IF ~is_valid_ethiopic_date(year, month, day)
            THEN ThrowTypeError(InvalidEthiopicMsg, <<"is_valid_ethiopic_date">>)
            ELSE Return(CreateDateObject(
                            ethiopic_to_gregorian(year, month, day, era)),
                        <<"is_valid_ethiopic_date", "ethiopic_to_gregorian">>))

\* Mutant: the validity check is applied only when the era was omitted.
EthiopicToGregorian_ValidatesOnlyWhenGuessing(args) ==
    IF Len(args) < 3 THEN ThrowTypeError(ArityMsg3, <<>>)
    ELSE
      LET year == Int32Value(args[1])
          month == Int32Value(args[2])
          day == Int32Value(args[3])
          explicit == Len(args) >= 4 /\ ~IsNull(args[4]) /\ ~IsUndefined(args[4])
          era == IF explicit
                 THEN Int64Value(args[4])
                 ELSE guess_era(ethiopic_to_jdn(year, month, day,
                                                JD_EPOCH_OFFSET_AMETE_MIHRET))
          pre == IF explicit THEN <<>> ELSE <<"ethiopic_to_jdn", "guess_era">>
      IN  NumberChecked(
            DateValues(args) \o (IF explicit THEN <<args[4]>> ELSE <<>>),
            IF ~explicit /\ ~is_valid_ethiopic_date(year, month, day)
            THEN ThrowTypeError(InvalidEthiopicMsg,
                                pre \o <<"is_valid_ethiopic_date">>)
            ELSE Return(CreateDateObject(
                            ethiopic_to_gregorian(year, month, day, era)),
                        pre \o <<"ethiopic_to_gregorian">>))

EthiopicToGregorian(args) ==
    IF Len(args) < 3 THEN ThrowTypeError(ArityMsg3, <<>>)
    ELSE
      LET year == Int32Value(args[1])
          month == Int32Value(args[2])
          day == Int32Value(args[3])
          explicit == Len(args) >= 4 /\ ~IsNull(args[4]) /\ ~IsUndefined(args[4])
          era == IF explicit
                 THEN Int64Value(args[4])
                 ELSE guess_era(ethiopic_to_jdn(year, month, day,
                                                JD_EPOCH_OFFSET_AMETE_MIHRET))
          pre == IF explicit THEN <<>> ELSE <<"ethiopic_to_jdn", "guess_era">>
      IN  NumberChecked(
            DateValues(args) \o (IF explicit THEN <<args[4]>> ELSE <<>>),
            IF ~is_valid_ethiopic_date(year, month, day)
            THEN ThrowTypeError(InvalidEthiopicMsg,
                                pre \o <<"is_valid_ethiopic_date">>)
            ELSE Return(CreateDateObject(
                            ethiopic_to_gregorian(year, month, day, era)),
                        pre \o <<"is_valid_ethiopic_date",
                                 "ethiopic_to_gregorian">>))

\* Mutant: the result is always computed under the Amete Mihret offset.
GregorianToEthiopic_AlwaysMihret(args) ==
    IF Len(args) < 3 THEN ThrowTypeError(ArityMsg3, <<>>)
    ELSE
      LET year == Int32Value(args[1])
          month == Int32Value(args[2])
          day == Int32Value(args[3])
      IN  NumberChecked(DateValues(args),
            IF ~is_valid_gregorian_date(year, month, day)
            THEN ThrowTypeError(InvalidGregorianMsg, <<"is_valid_gregorian_date">>)
            ELSE Return(CreateDateObject(
                            jdn_to_ethiopic(gregorian_to_jdn(year, month, day),
                                            JD_EPOCH_OFFSET_AMETE_MIHRET)),
                        <<"is_valid_gregorian_date", "gregorian_to_ethiopic">>))

\* Mutant: month and day are handed to the core in the wrong order.
GregorianToEthiopic_SwapsMonthDay(args) ==
    IF Len(args) < 3 THEN ThrowTypeError(ArityMsg3, <<>>)
    ELSE
      LET year == Int32Value(args[1])
          month == Int32Value(args[2])
          day == Int32Value(args[3])
      IN  NumberChecked(DateValues(args),
            IF ~is_valid_gregorian_date(year, month, day)
            THEN ThrowTypeError(InvalidGregorianMsg, <<"is_valid_gregorian_date">>)
            ELSE Return(CreateDateObject(gregorian_to_ethiopic(year, day, month)),
                        <<"is_valid_gregorian_date", "gregorian_to_ethiopic">>))

GregorianToEthiopic(args) ==
    IF Len(args) < 3 THEN ThrowTypeError(ArityMsg3, <<>>)
    ELSE
      LET year == Int32Value(args[1])
          month == Int32Value(args[2])
          day == Int32Value(args[3])
      IN  NumberChecked(DateValues(args),
            IF ~is_valid_gregorian_date(year, month, day)
            THEN ThrowTypeError(InvalidGregorianMsg, <<"is_valid_gregorian_date">>)
            ELSE Return(CreateDateObject(gregorian_to_ethiopic(year, month, day)),
                        <<"is_valid_gregorian_date", "gregorian_to_ethiopic">>))

\* Mutant: the day is read from the month's argument slot.
IsValidEthiopicDate_ReadsMonthAsDay(args) ==
    IF Len(args) < 3 THEN Return(Bool(FALSE), <<>>)
    ELSE NumberChecked(DateValues(args),
           Return(Bool(is_valid_ethiopic_date(Int32Value(args[1]),
                                              Int32Value(args[2]),
                                              Int32Value(args[2]))),
                  <<"is_valid_ethiopic_date">>))

IsValidEthiopicDate(args) ==
    IF Len(args) < 3 THEN Return(Bool(FALSE), <<>>)
    ELSE NumberChecked(DateValues(args),
           Return(Bool(is_valid_ethiopic_date(Int32Value(args[1]),
                                              Int32Value(args[2]),
                                              Int32Value(args[3]))),
                  <<"is_valid_ethiopic_date">>))

\* Mutant: the year is read from the month's argument slot.
IsValidGregorianDate_ReadsMonthAsYear(args) ==
    IF Len(args) < 3 THEN Return(Bool(FALSE), <<>>)
    ELSE NumberChecked(DateValues(args),
           Return(Bool(is_valid_gregorian_date(Int32Value(args[2]),
                                               Int32Value(args[2]),
                                               Int32Value(args[3]))),
                  <<"is_valid_gregorian_date">>))

IsValidGregorianDate(args) ==
    IF Len(args) < 3 THEN Return(Bool(FALSE), <<>>)
    ELSE NumberChecked(DateValues(args),
           Return(Bool(is_valid_gregorian_date(Int32Value(args[1]),
                                               Int32Value(args[2]),
                                               Int32Value(args[3]))),
                  <<"is_valid_gregorian_date">>))

IsGregorianLeap(args) ==
    IF Len(args) < 1 THEN Return(Bool(FALSE), <<>>)
    ELSE NumberChecked(<<args[1]>>,
           Return(Bool(is_gregorian_leap(Int32Value(args[1]))),
                  <<"is_gregorian_leap">>))

\* The era argument is converted unless it is absent or null: undefined is
\* converted too, and is not a number.
EthiopicToJDN(args) ==
    IF Len(args) < 3 THEN ThrowTypeError(ArityMsg3, <<>>)
    ELSE
      LET given == Len(args) > 3 /\ ~IsNull(args[4])
          era == IF given
                 THEN Int64Value(args[4])
                 ELSE JD_EPOCH_OFFSET_AMETE_MIHRET
      IN  NumberChecked(
            DateValues(args) \o (IF given THEN <<args[4]>> ELSE <<>>),
            Return(Num(ethiopic_to_jdn(Int32Value(args[1]), Int32Value(args[2]),
                                       Int32Value(args[3]), era)),
                   <<"ethiopic_to_jdn">>))

\* Mutant: the arity error carries the invalid-date message.
GregorianToJDN_WrongArityMessage(args) ==
    IF Len(args) < 3 THEN ThrowTypeError(InvalidGregorianMsg, <<>>)
    ELSE NumberChecked(DateValues(args),
           Return(Num(gregorian_to_jdn(Int32Value(args[1]), Int32Value(args[2]),
                                       Int32Value(args[3]))),
                  <<"gregorian_to_jdn">>))

GregorianToJDN(args) ==
    IF Len(args) < 3 THEN ThrowTypeError(ArityMsg3, <<>>)
    ELSE NumberChecked(DateValues(args),
           Return(Num(gregorian_to_jdn(Int32Value(args[1]), Int32Value(args[2]),
                                       Int32Value(args[3]))),
                  <<"gregorian_to_jdn">>))

\* Mutant: the epoch offset argument is ignored.
JDNToEthiopic_IgnoresEra(args) ==
    IF Len(args) < 1 THEN ThrowTypeError(ArityMsg1, <<>>)
    ELSE NumberChecked(<<args[1]>>,
           Return(CreateDateObject(jdn_to_ethiopic(DoubleValue(args[1]),
                                                   JD_EPOCH_OFFSET_AMETE_MIHRET)),
                  <<"jdn_to_ethiopic">>))

JDNToEthiopic(args) ==
    IF Len(args) < 1 THEN ThrowTypeError(ArityMsg1, <<>>)
    ELSE
      LET jdn == DoubleValue(args[1])
          given == Len(args) > 1 /\ ~IsNull(args[2])
          era == IF given
                 THEN Int64Value(args[2])
                 ELSE JD_EPOCH_OFFSET_AMETE_MIHRET
      IN  NumberChecked(
            <<args[1]>> \o (IF given THEN <<args[2]>> ELSE <<>>),
            Return(CreateDateObject(jdn_to_ethiopic(jdn, era)),
                   <<"jdn_to_ethiopic">>))

\* Mutant: the JDN is narrowed to 16 bits before the conversion.
JDNToGregorian_NarrowsJdn(args) ==
    IF Len(args) < 1 THEN ThrowTypeError(ArityMsg1, <<>>)
    ELSE NumberChecked(<<args[1]>>,
           Return(CreateDateObject(
                      jdn_to_gregorian(DoubleValue(args[1]) % 65536)),
                  <<"jdn_to_gregorian">>))

JDNToGregorian(args) ==
    IF Len(args) < 1 THEN ThrowTypeError(ArityMsg1, <<>>)
    ELSE NumberChecked(<<args[1]>>,
           Return(CreateDateObject(jdn_to_gregorian(DoubleValue(args[1]))),
                  <<"jdn_to_gregorian">>))

\* int dayOfWeek = static_cast<int>(jdn % 7), the remainder of C++.
GetDayOfWeek(args) ==
    IF Len(args) < 1 THEN ThrowTypeError(ArityMsg1, <<>>)
    ELSE NumberChecked(<<args[1]>>,
           Return(Num(CRem(DoubleValue(args[1]), 7)), <<>>))

(***************************************************************************)
(* TEST PROGRAM (test_ethiopic_calendar.c): the conversion table and the   *)
(* three test functions, which call the core directly.                     *)
(***************************************************************************)
test_cases == <<
    [ethiopic |-> date_t(1855, 2, 20), gregorian |-> date_t(1862, 10, 29),
     era |-> JD_EPOCH_OFFSET_AMETE_MIHRET],
    [ethiopic |-> date_t(1857, 10, 29), gregorian |-> date_t(1865, 7, 5),
     era |-> JD_EPOCH_OFFSET_AMETE_MIHRET],
    [ethiopic |-> date_t(1, 1, 1), gregorian |-> date_t(8, 8, 27),
     era |-> JD_EPOCH_OFFSET_AMETE_MIHRET],
    [ethiopic |-> date_t(4, 1, 1), gregorian |-> date_t(11, 8, 28),
     era |-> JD_EPOCH_OFFSET_AMETE_MIHRET],
    [ethiopic |-> date_t(2000, 13, 5), gregorian |-> date_t(2008, 9, 10),
     era |-> JD_EPOCH_OFFSET_AMETE_MIHRET],
    [ethiopic |-> date_t(5500, 1, 1), gregorian |-> date_t(7, 8, 28),
     era |-> JD_EPOCH_OFFSET_AMETE_ALEM],
    [ethiopic |-> date_t(1892, 4, 23), gregorian |-> date_t(1900, 1, 1),
     era |-> JD_EPOCH_OFFSET_AMETE_MIHRET],
    [ethiopic |-> date_t(1575, 2, 8), gregorian |-> date_t(1582, 10, 15),
     era |-> JD_EPOCH_OFFSET_AMETE_MIHRET],
    [ethiopic |-> date_t(2993, 4, 14), gregorian |-> date_t(3000, 12, 31),
     era |-> JD_EPOCH_OFFSET_AMETE_MIHRET] >>

\* Outcome of a test function, which returns nothing.  It returns after
\* printing okMsg, or the process ends inside it (exit(1), or abort() on a
\* failed assert) after printing failMsg: nothing runs afterwards.  `calls`
\* are the core functions it has called by then.
TestOutcome(ok, okMsg, failMsg, calls) ==
    [threw |-> FALSE, fatal |-> ~ok, msg |-> IF ok THEN okMsg ELSE failMsg,
     ret |-> Undefined, calls |-> calls]

eg_correct(test) ==
    ethiopic_to_gregorian(test.ethiopic.year, test.ethiopic.month,
                          test.ethiopic.day, test.era) = test.gregorian

ge_correct(test) ==
    gregorian_to_ethiopic(test.gregorian.year, test.gregorian.month,
                          test.gregorian.day) = test.ethiopic

\* The loop runs every row, whatever the rows before it gave, and counts the
\* rows correct in both directions; exit(1) unless all are.
run_conversion_tests ==
    LET total_tests == Len(test_cases)
        passed == Cardinality({i \in 1..total_tests :
                     eg_correct(test_cases[i]) /\ ge_correct(test_cases[i])})
        calls == [k \in 1..(2 * total_tests) |->
                     IF k % 2 = 1 THEN "ethiopic_to_gregorian"
                     ELSE "gregorian_to_ethiopic"]
    IN  TestOutcome(passed = total_tests,
                    "ALL TESTS PASSED", "Some tests failed", calls)

\* A run of assert(...) statements: the first one that fails aborts the
\* process, the ones after it are not evaluated.  0: none fails.
FirstFailure(asserts) ==
    IF \A i \in 1..Len(asserts) : asserts[i].holds THEN 0
    ELSE CHOOSE i \in 1..Len(asserts) :
            /\ ~asserts[i].holds
            /\ \A k \in 1..(i - 1) : asserts[k].holds

RunAsserts(asserts, header, okMsg) ==
    LET first == FirstFailure(asserts)
        reached == IF first = 0 THEN Len(asserts) ELSE first
    IN  TestOutcome(first = 0, okMsg, header,
                    [i \in 1..reached |-> asserts[i].fn])

Asserted(name, value, expected) == [fn |-> name, holds |-> value = expected]

run_validation_tests ==
    RunAsserts(<<
        Asserted("is_valid_gregorian_date", is_valid_gregorian_date(2024, 2, 29), TRUE),
        Asserted("is_valid_gregorian_date", is_valid_gregorian_date(2023, 2, 29), FALSE),
        Asserted("is_valid_gregorian_date", is_valid_gregorian_date(2024, 13, 1), FALSE),
        Asserted("is_valid_gregorian_date", is_valid_gregorian_date(2024, 1, 32), FALSE),
        Asserted("is_valid_gregorian_date", is_valid_gregorian_date(1900, 2, 29), FALSE),
        Asserted("is_valid_gregorian_date", is_valid_gregorian_date(2000, 2, 29), TRUE),
        Asserted("is_valid_ethiopic_date", is_valid_ethiopic_date(2017, 1, 30), TRUE),
        Asserted("is_valid_ethiopic_date", is_valid_ethiopic_date(2017, 13, 5), TRUE),
        Asserted("is_valid_ethiopic_date", is_valid_ethiopic_date(2017, 13, 6), FALSE),
        Asserted("is_valid_ethiopic_date", is_valid_ethiopic_date(2015, 13, 6), TRUE),
        Asserted("is_valid_ethiopic_date", is_valid_ethiopic_date(2017, 14, 1), FALSE),
        Asserted("is_valid_ethiopic_date", is_valid_ethiopic_date(2017, 1, 31), FALSE) >>,
        "=== Date Validation Tests ===", "All validation tests passed")

run_leap_year_tests ==
    RunAsserts(<<
        Asserted("is_gregorian_leap", is_gregorian_leap(2024), TRUE),
        Asserted("is_gregorian_leap", is_gregorian_leap(2023), FALSE),
        Asserted("is_gregorian_leap", is_gregorian_leap(1900), FALSE),
        Asserted("is_gregorian_leap", is_gregorian_leap(2000), TRUE),
        Asserted("is_gregorian_leap", is_gregorian_leap(1600), TRUE),
        Asserted("is_gregorian_leap", is_gregorian_leap(1700), FALSE) >>,
        "=== Leap Year Tests ===", "All leap year tests passed")

(***************************************************************************)
(* INPUTS.  Years: every year within MaxYear of zero (negative, zero and   *)
(* positive, every residue modulo 4) and, for each calendar, the years of  *)
(* the test program and of the era boundary.  Months and days run past     *)
(* both calendars' ranges.                                                 *)
(***************************************************************************)
EthiopicKeyYears ==
    { 1575, 1855, 1857, 1892, 2000, 2015, 2017, 2993, 5499, 5500, 5501 }
GregorianKeyYears ==
    { 7, 8, 11, 1582, 1600, 1700, 1862, 1865, 1900, 2000, 2008, 2023, 2024, 3000 }
EthiopicYears == (-MaxYear .. MaxYear) \cup EthiopicKeyYears
GregorianYears == (-MaxYear .. MaxYear) \cup GregorianKeyYears
Months == 0 .. MaxMonth
Days == 0 .. MaxDay
Eras == {JD_EPOCH_OFFSET_AMETE_ALEM, JD_EPOCH_OFFSET_AMETE_MIHRET}

\* JDNs: around zero, around the era boundary, and one modern day.
KeyJdns ==
    { JD_EPOCH_OFFSET_AMETE_MIHRET + 364, JD_EPOCH_OFFSET_AMETE_MIHRET + 365,
      JD_EPOCH_OFFSET_AMETE_MIHRET + 366, 2460670 }
Jdns == (-MaxJdn .. MaxJdn) \cup KeyJdns

\* Argument lists too short for a date, and the optional trailing argument.
ShortDateArgs == { <<>>, <<Num(2017)>>, <<Num(2017), Num(1)>> }
NoTail == { <<>> }
ExplicitEra == { <<Num(e)>> : e \in Eras }
\* Values that are not numbers, as a host may pass in any argument slot.
NotNumbers == { Null, Undefined, Bool(TRUE) }
\* The trailing era argument: absent, a number, or not a number.
EraArgs == NoTail \cup ExplicitEra \cup { <<x>> : x \in NotNumbers }

(***************************************************************************)
(* STATE MACHINE.  The module is loaded and idle; the host calls one       *)
(* exported function with some arguments; the handler runs to completion   *)
(* and the host gets the outcome; the host goes on.  No handler keeps      *)
(* state between calls.                                                    *)
(***************************************************************************)
NoOutcome ==
    [threw |-> FALSE, fatal |-> FALSE, msg |-> "", ret |-> Undefined, calls |-> <<>>]

\* The build of the addon is fixed before the module is loaded.
Init ==
    /\ pc = "idle"
    /\ fn = "none"
    /\ info = <<>>
    /\ out = NoOutcome
    /\ build \in Builds

\* The exports table: the handler registered under each exported name.
Exports(name, args) ==
    CASE name = "ethiopicToGregorian" -> EthiopicToGregorian(args)
      [] name = "gregorianToEthiopic" -> GregorianToEthiopic(args)
      [] name = "isValidEthiopicDate" -> IsValidEthiopicDate(args)
      [] name = "isValidGregorianDate" -> IsValidGregorianDate(args)
      [] name = "isGregorianLeap" -> IsGregorianLeap(args)
      [] name = "ethiopicToJDN" -> EthiopicToJDN(args)
      [] name = "gregorianToJDN" -> GregorianToJDN(args)
      [] name = "jdnToEthiopic" -> JDNToEthiopic(args)
      [] name = "jdnToGregorian" -> JDNToGregorian(args)
      [] name = "getDayOfWeek" -> GetDayOfWeek(args)

\* The handler runs to its end and the host gets the outcome, or the process
\* aborts inside the handler and nothing follows.
Invoke(name, args, outcome) ==
    /\ pc' = IF outcome.fatal THEN "aborted" ELSE "returned"
    /\ fn' = name
    /\ info' = args
    /\ out' = outcome
    /\ UNCHANGED build

\* The host's choice of a date (or of too few arguments, or of a value
\* that is not a number in the year's, month's or day's place) and of a tail.
DateCall(name, years, tails) ==
    \/ \E y \in years, m \in Months, d \in Days, tail \in tails :
          LET a == <<Num(y), Num(m), Num(d)>> \o tail
          IN  Invoke(name, a, Exports(name, a))
    \/ \E y \in years, k \in 1..3, x \in NotNumbers, tail \in tails :
          LET a == [<<Num(y), Num(1), Num(1)>> EXCEPT ![k] = x] \o tail
          IN  Invoke(name, a, Exports(name, a))
    \/ \E a \in ShortDateArgs : Invoke(name, a, Exports(name, a))

JdnCall(name, tails) ==
    \/ \E j \in Jdns, tail \in tails :
          LET a == <<Num(j)>> \o tail
          IN  Invoke(name, a, Exports(name, a))
    \/ \E x \in NotNumbers, tail \in tails :
          Invoke(name, <<x>> \o tail, Exports(name, <<x>> \o tail))
    \/ Invoke(name, <<>>, Exports(name, <<>>))

CallEthiopicToGregorian ==
    /\ pc = "idle"
    /\ DateCall("ethiopicToGregorian", EthiopicYears, EraArgs)

CallGregorianToEthiopic ==
    /\ pc = "idle"
    /\ DateCall("gregorianToEthiopic", GregorianYears, NoTail)

CallIsValidEthiopicDate ==
    /\ pc = "idle"
    /\ DateCall("isValidEthiopicDate", EthiopicYears, NoTail)

CallIsValidGregorianDate ==
    /\ pc = "idle"
    /\ DateCall("isValidGregorianDate", GregorianYears,
                NoTail)

CallIsGregorianLeap ==
    /\ pc = "idle"
    /\ \/ \E y \in GregorianYears :
            Invoke("isGregorianLeap", <<Num(y)>>, IsGregorianLeap(<<Num(y)>>))
       \/ \E x \in NotNumbers :
            Invoke("isGregorianLeap", <<x>>, IsGregorianLeap(<<x>>))
       \/ Invoke("isGregorianLeap", <<>>, IsGregorianLeap(<<>>))

CallEthiopicToJDN ==
    /\ pc = "idle"
    /\ DateCall("ethiopicToJDN", EthiopicYears, EraArgs)

CallGregorianToJDN ==
    /\ pc = "idle"
    /\ DateCall("gregorianToJDN", GregorianYears, NoTail)

CallJDNToEthiopic ==
    /\ pc = "idle"
    /\ JdnCall("jdnToEthiopic", EraArgs)

CallJDNToGregorian ==
    /\ pc = "idle"
    /\ JdnCall("jdnToGregorian", NoTail)

CallGetDayOfWeek ==
    /\ pc = "idle"
    /\ JdnCall("getDayOfWeek", NoTail)

RunConversionTests ==
    /\ pc = "idle"
    /\ Invoke("run_conversion_tests", <<>>, run_conversion_tests)
RunValidationTests ==
    /\ pc = "idle"
    /\ Invoke("run_validation_tests", <<>>, run_validation_tests)
RunLeapYearTests ==
    /\ pc = "idle"
    /\ Invoke("run_leap_year_tests", <<>>, run_leap_year_tests)

\* The host has taken the outcome; the module is idle again.
Resume ==
    /\ pc = "returned"
    /\ pc' = "idle"
    /\ fn' = "none"
    /\ info' = <<>>
    /\ out' = NoOutcome
    /\ UNCHANGED build

Next ==
    \/ CallEthiopicToGregorian
    \/ CallGregorianToEthiopic
    \/ CallIsValidEthiopicDate
    \/ CallIsValidGregorianDate
    \/ CallIsGregorianLeap
    \/ CallEthiopicToJDN
    \/ CallGregorianToJDN
    \/ CallJDNToEthiopic
    \/ CallJDNToGregorian
    \/ CallGetDayOfWeek
    \/ RunConversionTests
    \/ RunValidationTests
    \/ RunLeapYearTests
    \/ Resume

Spec == Init /\ [][Next]_vars

TypeOK ==
    /\ pc \in {"idle", "returned", "aborted"}
    /\ out.threw \in BOOLEAN
    /\ pc = "aborted" <=> out.fatal
    /\ build \in Builds
    /\ pc = "idle" => fn = "none" /\ out = NoOutcome

(***************************************************************************)
(* PROPERTIES.                                                             *)
(***************************************************************************)
Returned(name) == pc = "returned" /\ fn = name
\* The handler has run: it has returned or the process has aborted in it.
Ran(name) == pc \in {"returned", "aborted"} /\ fn = name
\* The call's first n arguments are numbers: the dates, JDNs and years the
\* properties speak of.
NumbersAt(n) == Len(info) >= n /\ \A i \in 1..n : IsNumber(info[i])
DateArgsAreNumbers == NumbersAt(3)
ArgYear == info[1].v
ArgMonth == info[2].v
ArgDay == info[3].v
ArgDate == date_t(ArgYear, ArgMonth, ArgDay)
HasExplicitEra == Len(info) = 4 /\ IsNumber(info[4])
EraOmitted == Len(info) = 3 \/ (Len(info) = 4 /\ (IsNull(info[4]) \/ IsUndefined(info[4])))
DateToArgs(date) == <<Num(date.year), Num(date.month), Num(date.day)>>

\* C1: cross-calendar round trip.  For every valid Ethiopian date d and
\* every era e that is the auto-detected era of d's own day
\* (guess_era(ethiopic_to_jdn(d, e)) = e), converting d to Gregorian under e
\* and converting the result back gives exactly d.
CrossCalendarRoundTrip ==
    ( /\ Returned("ethiopicToGregorian")
      /\ DateArgsAreNumbers
      /\ HasExplicitEra
      /\ is_valid_ethiopic_date(ArgYear, ArgMonth, ArgDay)
      /\ guess_era(ethiopic_to_jdn(ArgYear, ArgMonth, ArgDay, info[4].v)) = info[4].v )
    => /\ ~out.threw
       /\ out.ret.t = "object"
       /\ LET back == GregorianToEthiopic(DateToArgs(out.ret.v))
          IN  ~back.threw /\ back.ret = CreateDateObject(ArgDate)

\* A leap-year Pagume 6 under Amete Alem, whose own era is Amete Alem, has
\* been converted.
CrossCalendarRoundTripWitness ==
    /\ Returned("ethiopicToGregorian")
    /\ DateArgsAreNumbers
    /\ HasExplicitEra
    /\ info[4].v = JD_EPOCH_OFFSET_AMETE_ALEM
    /\ ArgMonth = 13 /\ ArgDay = 6
    /\ is_valid_ethiopic_date(ArgYear, ArgMonth, ArgDay)
    /\ guess_era(ethiopic_to_jdn(ArgYear, ArgMonth, ArgDay, info[4].v)) = info[4].v
    /\ out.ret.t = "object"

\* The rows of the conversion table as the claim lists them.
ClaimedRows ==
    { <<date_t(1855, 2, 20), date_t(1862, 10, 29), JD_EPOCH_OFFSET_AMETE_MIHRET>>,
      <<date_t(1857, 10, 29), date_t(1865, 7, 5), JD_EPOCH_OFFSET_AMETE_MIHRET>>,
      <<date_t(1, 1, 1), date_t(8, 8, 27), JD_EPOCH_OFFSET_AMETE_MIHRET>>,
      <<date_t(4, 1, 1), date_t(11, 8, 28), JD_EPOCH_OFFSET_AMETE_MIHRET>>,
      <<date_t(2000, 13, 5), date_t(2008, 9, 10), JD_EPOCH_OFFSET_AMETE_MIHRET>>,
      <<date_t(1892, 4, 23), date_t(1900, 1, 1), JD_EPOCH_OFFSET_AMETE_MIHRET>>,
      <<date_t(1575, 2, 8), date_t(1582, 10, 15), JD_EPOCH_OFFSET_AMETE_MIHRET>>,
      <<date_t(2993, 4, 14), date_t(3000, 12, 31), JD_EPOCH_OFFSET_AMETE_MIHRET>>,
      <<date_t(5500, 1, 1), date_t(7, 8, 28), JD_EPOCH_OFFSET_AMETE_ALEM>> }

\* C2: concrete conversions.  Every row (E, G, era) of the table converts
\* E to G under era and G back to E, the test function passes every row, and
\* Gregorian 2024-12-25 converts to Ethiopian 2017-4-16.
ConcreteConversions ==
    /\ \A row \in ClaimedRows :
        /\ ( Returned("ethiopicToGregorian")
             /\ info = Append(DateToArgs(row[1]), Num(row[3])) )
           => ~out.threw /\ out.ret = CreateDateObject(row[2])
        /\ ( Returned("gregorianToEthiopic") /\ info = DateToArgs(row[2]) )
           => ~out.threw /\ out.ret = CreateDateObject(row[1])
    /\ Ran("run_conversion_tests")
       => /\ ~out.fatal
          /\ out.msg = "ALL TESTS PASSED"
          /\ Len(out.calls) = 2 * Cardinality(ClaimedRows)
          /\ \A i \in 1..Len(test_cases) :
                eg_correct(test_cases[i]) /\ ge_correct(test_cases[i])
    /\ ( Returned("gregorianToEthiopic") /\ info = DateToArgs(date_t(2024, 12, 25)) )
       => ~out.threw /\ out.ret = CreateDateObject(date_t(2017, 4, 16))

\* The Amete Alem row has been converted from Ethiopian to Gregorian.
ConcreteConversionsWitness ==
    /\ Returned("ethiopicToGregorian")
    /\ info = Append(DateToArgs(date_t(5500, 1, 1)), Num(JD_EPOCH_OFFSET_AMETE_ALEM))
    /\ out.ret = CreateDateObject(date_t(7, 8, 28))

\* C3: Gregorian JDN round trip.  For every valid Gregorian date d,
\* jdnToGregorian of gregorianToJDN(d) is exactly d.
GregorianJdnRoundTrip ==
    ( /\ Returned("gregorianToJDN")
      /\ Len(info) = 3
      /\ DateArgsAreNumbers
      /\ is_valid_gregorian_date(ArgYear, ArgMonth, ArgDay) )
    => /\ ~out.threw
       /\ out.ret.t = "number"
       /\ LET back == JDNToGregorian(<<out.ret>>)
          IN  ~back.threw /\ back.ret = CreateDateObject(ArgDate)

\* A leap day of a year before 1582 (a negative one) has been converted.
GregorianJdnRoundTripWitness ==
    /\ Returned("gregorianToJDN")
    /\ Len(info) = 3
    /\ DateArgsAreNumbers
    /\ ArgYear < 0 /\ ArgMonth = 2 /\ ArgDay = 29
    /\ is_valid_gregorian_date(ArgYear, ArgMonth, ArgDay)
    /\ out.ret.t = "number"

\* C4: Ethiopian JDN round trip under a fixed offset.  For every valid
\* Ethiopian date d and each of the two offsets e, jdnToEthiopic of
\* ethiopicToJDN(d, e), under the same e, is exactly d.
EthiopicJdnRoundTrip ==
    ( /\ Returned("ethiopicToJDN")
      /\ DateArgsAreNumbers
      /\ HasExplicitEra
      /\ info[4].v \in Eras
      /\ is_valid_ethiopic_date(ArgYear, ArgMonth, ArgDay) )
    => /\ ~out.threw
       /\ out.ret.t = "number"
       /\ LET back == JDNToEthiopic(<<out.ret, info[4]>>)
          IN  ~back.threw /\ back.ret = CreateDateObject(ArgDate)

\* Pagume 6 of a leap year has been converted under Amete Alem.
EthiopicJdnRoundTripWitness ==
    /\ Returned("ethiopicToJDN")
    /\ DateArgsAreNumbers
    /\ HasExplicitEra
    /\ info[4].v = JD_EPOCH_OFFSET_AMETE_ALEM
    /\ ArgMonth = 13 /\ ArgDay = 6
    /\ is_valid_ethiopic_date(ArgYear, ArgMonth, ArgDay)
    /\ out.ret.t = "number"

\* Every occurrence of core function `later` in the call log comes after an
\* occurrence of `earlier`.
CalledOnlyAfter(later, earlier, calls) ==
    \A i \in 1..Len(calls) :
        calls[i] = later => \E k \in 1..(i - 1) : calls[k] = earlier

\* The era argument of the call is absent, null, undefined or a number.
EraIsAnEra == EraOmitted \/ HasExplicitEra

\* C5: the validating entry points validate before converting.  Called with
\* a date of three numbers (and, for ethiopicToGregorian, with or without an
\* era), ethiopicToGregorian (gregorianToEthiopic) raises the invalid-date
\* error and returns no date exactly when the date is not a valid Ethiopian
\* (Gregorian) date, and returns a date otherwise; and on every call,
\* whatever the arguments, the core conversion is called only after the
\* validity check.
ValidateBeforeConvert ==
    /\ ( Returned("ethiopicToGregorian") /\ DateArgsAreNumbers /\ EraIsAnEra )
       => LET valid == is_valid_ethiopic_date(ArgYear, ArgMonth, ArgDay)
              converted == \E i \in 1..Len(out.calls) :
                              out.calls[i] = "ethiopic_to_gregorian"
          IN  /\ ~valid <=> (out.threw /\ out.msg = InvalidEthiopicMsg)
              /\ ~valid => out.ret = Null /\ ~converted
              /\ valid => ~out.threw /\ out.ret.t = "object" /\ converted
    /\ Ran("ethiopicToGregorian")
       => CalledOnlyAfter("ethiopic_to_gregorian", "is_valid_ethiopic_date",
                          out.calls)
    /\ ( Returned("gregorianToEthiopic") /\ DateArgsAreNumbers )
       => LET valid == is_valid_gregorian_date(ArgYear, ArgMonth, ArgDay)
              converted == \E i \in 1..Len(out.calls) :
                              out.calls[i] = "gregorian_to_ethiopic"
          IN  /\ ~valid <=> (out.threw /\ out.msg = InvalidGregorianMsg)
              /\ ~valid => out.ret = Null /\ ~converted
              /\ valid => ~out.threw /\ out.ret.t = "object" /\ converted
    /\ Ran("gregorianToEthiopic")
       => CalledOnlyAfter("gregorian_to_ethiopic", "is_valid_gregorian_date",
                          out.calls)

\* An invalid Ethiopian date given with an explicit era has been rejected.
ValidateBeforeConvertWitness ==
    /\ Returned("ethiopicToGregorian")
    /\ DateArgsAreNumbers
    /\ HasExplicitEra
    /\ ~is_valid_ethiopic_date(ArgYear, ArgMonth, ArgDay)
    /\ out.threw /\ out.msg = InvalidEthiopicMsg

BoundaryOps ==
    { "ethiopicToGregorian", "gregorianToEthiopic", "isValidEthiopicDate",
      "isValidGregorianDate", "isGregorianLeap", "ethiopicToJDN",
      "gregorianToJDN", "jdnToEthiopic", "jdnToGregorian", "getDayOfWeek" }
PredicateOps == { "isValidEthiopicDate", "isValidGregorianDate", "isGregorianLeap" }
RequiredArgs(name) ==
    IF name \in { "isGregorianLeap", "jdnToEthiopic", "jdnToGregorian",
                  "getDayOfWeek" }
    THEN 1 ELSE 3
TooFewArgs == pc = "returned" /\ fn \in BoundaryOps /\ Len(info) < RequiredArgs(fn)
InputShapeError ==
    /\ out.threw
    /\ out.msg \in {ArityMsg3, ArityMsg1}
    /\ out.msg \notin {InvalidEthiopicMsg, InvalidGregorianMsg}
    /\ out.ret = Null

\* C6 as stated: every boundary operation called with fewer than its
\* required arguments raises an input-shape error, distinct from the
\* invalid-date outcome, and calls no core function.
TooFewArgsAlwaysRaise ==
    TooFewArgs => InputShapeError /\ out.calls = <<>>

\* C6 as amended: called with fewer than its required arguments, each of the
\* seven converting operations raises the input-shape error, distinct from
\* the invalid-date error, and each of the three predicates returns false
\* without raising; in every case no core function is called.
TooFewArgsRaiseOrFalse ==
    TooFewArgs =>
        /\ out.calls = <<>>
        /\ fn \notin PredicateOps => InputShapeError
        /\ fn \in PredicateOps => ~out.threw /\ out.ret = Bool(FALSE)

\* gregorianToJDN has been called with two arguments and has raised.
TooFewArgsWitness ==
    /\ Returned("gregorianToJDN")
    /\ Len(info) = 2
    /\ out.threw

\* C7: getDayOfWeek(jdn) is, for every integer jdn, negative ones
\* included, the integer in 0..6 congruent to jdn modulo 7, and the day of
\* the week of jdn + 1 is the next one modulo 7.
DayOfWeekIsResidue ==
    ( Returned("getDayOfWeek") /\ Len(info) = 1 /\ NumbersAt(1) )
    => /\ ~out.threw
       /\ out.ret.t = "number"
       /\ out.ret.v \in 0..6
       /\ out.ret.v = info[1].v % 7
       /\ GetDayOfWeek(<<Num(info[1].v + 1)>>).ret.v = (out.ret.v + 1) % 7

\* C8: era auto-detection.  With the era omitted (absent, null or
\* undefined) and a valid Ethiopian date, ethiopicToGregorian returns what it
\* returns under the explicit era E, where E is Amete Mihret when the date's
\* JDN under Amete Mihret is on or after that of 1-1-1 and Amete Alem
\* otherwise; E is Amete Mihret for every year >= 1 and Amete Alem for every
\* year <= 0.
EraAutoDetection ==
    ( /\ Returned("ethiopicToGregorian")
      /\ DateArgsAreNumbers
      /\ EraOmitted
      /\ is_valid_ethiopic_date(ArgYear, ArgMonth, ArgDay) )
    => LET E == IF ethiopic_to_jdn(ArgYear, ArgMonth, ArgDay,
                                   JD_EPOCH_OFFSET_AMETE_MIHRET)
                   >= ethiopic_to_jdn(1, 1, 1, JD_EPOCH_OFFSET_AMETE_MIHRET)
                THEN JD_EPOCH_OFFSET_AMETE_MIHRET
                ELSE JD_EPOCH_OFFSET_AMETE_ALEM
           explicit == EthiopicToGregorian(Append(DateToArgs(ArgDate), Num(E)))
       IN  /\ ~out.threw
           /\ out.ret = CreateDateObject(
                            ethiopic_to_gregorian(ArgYear, ArgMonth, ArgDay, E))
           /\ out.ret = explicit.ret
           /\ ArgYear >= 1 => E = JD_EPOCH_OFFSET_AMETE_MIHRET
           /\ ArgYear <= 0 => E = JD_EPOCH_OFFSET_AMETE_ALEM

\* A valid date of a year <= 0 has been converted with the era passed as
\* undefined.
EraAutoDetectionWitness ==
    /\ Returned("ethiopicToGregorian")
    /\ DateArgsAreNumbers
    /\ Len(info) = 4 /\ IsUndefined(info[4])
    /\ ArgYear <= 0
    /\ is_valid_ethiopic_date(ArgYear, ArgMonth, ArgDay)
    /\ out.ret.t = "object"

\* C9: Ethiopian validity.  For every year, negative and zero included,
\* a date is valid exactly when the month is in 1..13 and the day is in 1..30
\* (months 1..12), in 1..5 (month 13), or is 6 in month 13 of a year with
\* year % 4 == 3 (the remainder of C).
EthiopicValidityRule ==
    /\ ( Returned("isValidEthiopicDate") /\ Len(info) = 3 /\ DateArgsAreNumbers )
       => /\ ~out.threw
          /\ out.ret = Bool(
                /\ ArgMonth \in 1..13
                /\ \/ ArgMonth <= 12 /\ ArgDay \in 1..30
                   \/ ArgMonth = 13 /\ ArgDay \in 1..5
                   \/ ArgMonth = 13 /\ ArgDay = 6 /\ CRem(ArgYear, 4) = 3 )
          /\ ArgDate \in {date_t(2015, 13, 6), date_t(2017, 13, 5), date_t(2017, 1, 30)}
             => out.ret = Bool(TRUE)
          /\ ArgDate \in {date_t(2017, 13, 6), date_t(2017, 14, 1), date_t(2017, 1, 31)}
             => out.ret = Bool(FALSE)
    /\ Ran("run_validation_tests")
       => /\ ~out.fatal
          /\ out.msg = "All validation tests passed"
          /\ Len(out.calls) = 12

\* Pagume 6 of a leap year has been found valid.
EthiopicValidityRuleWitness ==
    /\ Returned("isValidEthiopicDate")
    /\ Len(info) = 3
    /\ DateArgsAreNumbers
    /\ ArgMonth = 13 /\ ArgDay = 6
    /\ out.ret = Bool(TRUE)

\* The leap rule and the month table as the claim words them.
DivisibleBy(n, k) == n % k = 0
ClaimedLeap(year) ==
    DivisibleBy(year, 4) /\ (~DivisibleBy(year, 100) \/ DivisibleBy(year, 400))
ClaimedDaysInMonth(year, month) ==
    IF month \in {1, 3, 5, 7, 8, 10, 12} THEN 31
    ELSE IF month \in {4, 6, 9, 11} THEN 30
    ELSE IF ClaimedLeap(year) THEN 29 ELSE 28

\* C10: Gregorian validity.  A date is valid exactly when the month is in
\* 1..12 and the day is in 1..days_in_month (31/30 table, February 29 in a
\* leap year and 28 otherwise); a year is leap iff divisible by 4 and not by
\* 100, or by 400; 1600, 2000, 2024 are leap and 1700, 1900, 2023 are not;
\* February 29 is valid in 2000 and 2024, not in 1900 or 2023.
GregorianValidityRule ==
    /\ ( Returned("isValidGregorianDate") /\ Len(info) = 3 /\ DateArgsAreNumbers )
       => /\ ~out.threw
          /\ out.ret = Bool( /\ ArgMonth \in 1..12
                             /\ ArgDay \in 1..ClaimedDaysInMonth(ArgYear, ArgMonth) )
          /\ ( ArgMonth = 2 /\ ArgDay = 29 /\ ArgYear \in {2000, 2024} )
             => out.ret = Bool(TRUE)
          /\ ( ArgMonth = 2 /\ ArgDay = 29 /\ ArgYear \in {1900, 2023} )
             => out.ret = Bool(FALSE)
    /\ ( Returned("isGregorianLeap") /\ Len(info) = 1 /\ NumbersAt(1) )
       => /\ ~out.threw
          /\ out.ret = Bool(ClaimedLeap(ArgYear))
          /\ ArgYear \in {1600, 2000, 2024} => out.ret = Bool(TRUE)
          /\ ArgYear \in {1700, 1900, 2023} => out.ret = Bool(FALSE)
    /\ Ran("run_leap_year_tests")
       => /\ ~out.fatal
          /\ out.msg = "All leap year tests passed"
          /\ Len(out.calls) = 6

\* February 29 of the century year 1900 has been found invalid.
GregorianValidityRuleWitness ==
    /\ Returned("isValidGregorianDate")
    /\ Len(info) = 3
    /\ DateArgsAreNumbers
    /\ ArgDate = date_t(1900, 2, 29)
    /\ out.ret = Bool(FALSE)

\* C11: era selection of gregorianToEthiopic.  For every valid Gregorian
\* date g with j = gregorianToJDN(g), the result is jdnToEthiopic(j) under
\* Amete Mihret when j is on or after the JDN of Amete Mihret 1-1-1 and
\* under Amete Alem otherwise; Gregorian 8-8-27 gives 1-1-1 and the day
\* before gives 5500-13-5; on or after the boundary the year is >= 1 and
\* before it the year is <= 5500.
GregorianEraThreshold ==
    ( /\ Returned("gregorianToEthiopic")
      /\ Len(info) = 3
      /\ DateArgsAreNumbers
      /\ is_valid_gregorian_date(ArgYear, ArgMonth, ArgDay) )
    => LET j == GregorianToJDN(info).ret.v
           boundary == EthiopicToJDN(<<Num(1), Num(1), Num(1),
                                       Num(JD_EPOCH_OFFSET_AMETE_MIHRET)>>).ret.v
           E == IF j >= boundary THEN JD_EPOCH_OFFSET_AMETE_MIHRET
                ELSE JD_EPOCH_OFFSET_AMETE_ALEM
       IN  /\ ~out.threw
           /\ out.ret = JDNToEthiopic(<<Num(j), Num(E)>>).ret
           /\ ArgDate = date_t(8, 8, 27) => out.ret = CreateDateObject(date_t(1, 1, 1))
           /\ ArgDate = date_t(8, 8, 26)
              => out.ret = CreateDateObject(date_t(5500, 13, 5))
           /\ j >= boundary => out.ret.v.year >= 1
           /\ j < boundary => out.ret.v.year <= 5500

\* The last day before the boundary has been converted, under Amete Alem.
GregorianEraThresholdWitness ==
    /\ Returned("gregorianToEthiopic")
    /\ DateArgsAreNumbers
    /\ ArgDate = date_t(8, 8, 26)
    /\ out.ret = CreateDateObject(date_t(5500, 13, 5))

====
